---------------------------- MODULE Spec2Model ----------------------------
(***************************************************************************)
(* A model of src/app.py: the room-booking calendar generator.             *)
(*                                                                         *)
(*   format_time_range   (lines 72-81)    time token reformatting          *)
(*   build_events_dict   (lines 84-139)   sheet rows -> {day: [event...]}  *)
(*   draw_month_calendar (lines 146-287)  month grid -> draw commands      *)
(*   set_chinese_font    (lines 25-65)    cached font acquisition          *)
(*                                                                         *)
(* Python strings are modelled as sequences of characters, one TLA+ string *)
(* per code point.  A CJK code point is written by its code, e.g. "u4E0A". *)
(***************************************************************************)
EXTENDS Integers, Sequences, FiniteSets, TLC

VARIABLES
    pc,             \* position of the modelled call
    raw, time_out,  \* format_time_range: argument and outcome
    sheet,          \* the uploaded worksheet as read_excel returns it
    df,             \* build_events_dict: the DataFrame [cols, rows]
    events_by_day,  \* {day: [event line, ...]}
    row_idx,        \* position of the for-loop of line 100
    err,            \* exception that left build_events_dict, or "none"
    day, time_str, tag_text, reason, unit, desc,  \* locals of the loop body
    year, month, title_text,   \* draw_month_calendar arguments
    month_matrix, cmds,        \* its matrix and the draw commands emitted
    week_idx, day_idx,         \* position of the loops of lines 218-219
    font_file,      \* state of .font_cache/SourceHanSansTC-Regular.otf
    rpc, font_ret   \* per render: position, set_chinese_font's return value

vars == <<pc, raw, time_out, sheet, df, events_by_day, row_idx, err, day,
          time_str, tag_text, reason, unit, desc, year, month, title_text,
          month_matrix, cmds, week_idx, day_idx, font_file, rpc, font_ret>>

timeVars == <<raw, time_out>>
sheetVars == <<sheet, df, row_idx, err>>
rowVars == <<day, time_str, tag_text, reason, unit, desc>>
drawVars == <<title_text, month_matrix, cmds, week_idx, day_idx>>
fontVars == <<font_file, rpc, font_ret>>

-----------------------------------------------------------------------------
(* Python values and strings *)

NaN == [kind |-> "nan"]
None == [kind |-> "none"]
Str(s) == [kind |-> "str", s |-> s]
Num(n) == [kind |-> "int", n |-> n]
Timestamp(y, m, d) == [kind |-> "ts", y |-> y, m |-> m, d |-> d]

Digits == {"0", "1", "2", "3", "4", "5", "6", "7", "8", "9"}
DigitChar(d) == CASE d = 0 -> "0" [] d = 1 -> "1" [] d = 2 -> "2" [] d = 3 -> "3"
                  [] d = 4 -> "4" [] d = 5 -> "5" [] d = 6 -> "6" [] d = 7 -> "7"
                  [] d = 8 -> "8" [] d = 9 -> "9"

RECURSIVE IntStr(_)
\* str(n) of a non-negative int
IntStr(n) == IF n < 10 THEN <<DigitChar(n)>>
             ELSE IntStr(n \div 10) \o <<DigitChar(n % 10)>>

\* str(x) as lines 102, 106-111, 118-119 apply it to a cell
PyStr(x) == CASE x.kind = "str" -> x.s
              [] x.kind = "int" -> IntStr(x.n)
              [] x.kind = "nan" -> <<"n", "a", "n">>
              [] x.kind = "none" -> <<"N", "o", "n", "e">>

\* pd.isna / Series.notna on a scalar cell
IsNa(x) == x.kind \in {"nan", "none"}

Whitespace == {" ", "\t", "\n"}

RECURSIVE LStrip(_)
LStrip(s) == IF s # <<>> /\ Head(s) \in Whitespace THEN LStrip(Tail(s)) ELSE s

RECURSIVE RStrip(_)
RStrip(s) == IF s # <<>> /\ s[Len(s)] \in Whitespace
             THEN RStrip(SubSeq(s, 1, Len(s) - 1)) ELSE s

\* str.strip()
Strip(s) == RStrip(LStrip(s))

Contains(s, c) == \E k \in 1..Len(s) : s[k] = c

RECURSIVE Split(_, _)
\* s.split(c): the list of the pieces between the occurrences of c
Split(s, c) ==
    IF ~Contains(s, c) THEN <<s>>
    ELSE LET k == CHOOSE j \in 1..Len(s) :
                      s[j] = c /\ \A h \in 1..(j - 1) : s[h] # c
         IN <<SubSeq(s, 1, k - 1)>> \o Split(SubSeq(s, k + 1, Len(s)), c)

RECURSIVE Zeros(_)
Zeros(n) == IF n <= 0 THEN <<>> ELSE <<"0">> \o Zeros(n - 1)

\* str.zfill(width): zeros go after a leading sign
ZFill(s, width) ==
    IF Len(s) >= width THEN s
    ELSE IF s # <<>> /\ Head(s) \in {"+", "-"}
         THEN <<Head(s)>> \o Zeros(width - Len(s)) \o Tail(s)
         ELSE Zeros(width - Len(s)) \o s

RECURSIVE Join(_, _)
\* sep.join(parts)
Join(parts, sep) ==
    IF parts = <<>> THEN <<>>
    ELSE IF Len(parts) = 1 THEN parts[1]
    ELSE parts[1] \o sep \o Join(Tail(parts), sep)

-----------------------------------------------------------------------------
(* format_time_range, lines 72-81 *)

Returned(v) == [ok |-> TRUE, val |-> v]
Raised(e) == [ok |-> FALSE, exc |-> e]

FillWidth == 4

\* the slices s[:n] and s[n:]
SliceTo(s, n) == SubSeq(s, 1, IF n < Len(s) THEN n ELSE Len(s))
SliceFrom(s, n) == IF n >= Len(s) THEN <<>> ELSE SubSeq(s, n + 1, Len(s))

\* line 81
Clock(start, end) ==
    SliceTo(start, 2) \o <<":">> \o SliceFrom(start, 2) \o <<"-">>
    \o SliceTo(end, 2) \o <<":">> \o SliceFrom(end, 2)

\* format_time_range without the zfill of lines 79-80
format_time_range_NoZfill(r) ==
    IF r.kind # "str" THEN Returned(<<>>)
    ELSE IF ~Contains(r.s, "-") THEN Returned(r.s)
    ELSE LET parts == Split(r.s, "-") IN
         IF Len(parts) # 2 THEN Raised("ValueError")
         ELSE Returned(Clock(parts[1], parts[2]))

format_time_range(r) ==
    IF r.kind # "str" THEN Returned(<<>>)
    ELSE IF ~Contains(r.s, "-") THEN Returned(r.s)
    ELSE LET parts == Split(r.s, "-") IN
         IF Len(parts) # 2 THEN Raised("ValueError")
         ELSE Returned(Clock(ZFill(parts[1], FillWidth), ZFill(parts[2], FillWidth)))

-----------------------------------------------------------------------------
(* build_events_dict, lines 84-139 *)

\* Column headers of the worksheet (u65E5 u671F, u661F u671F, u5730 u9EDE,
\* u6642 u9593, u4E0A u8AB2, u501F u7528, u53C3 u8A2A, u7533 u8ACB u4E8B u7531,
\* u7533 u8ACB u55AE u4F4D)
ColDate == "date"
ColWeekday == "weekday"
ColPlace == "place"
ColTime == "time"
ColClass == "class"
ColLoan == "loan"
ColVisit == "visit"
ColReason == "reason"
ColUnit == "unit"
AllCols == {ColDate, ColWeekday, ColPlace, ColTime, ColClass, ColLoan,
            ColVisit, ColReason, ColUnit}

\* Tag words and separators of lines 107-112 and 123
TagClass == <<"u4E0A", "u8AB2">>
TagLoan == <<"u501F", "u7528">>
TagVisit == <<"u53C3", "u8A2A">>
TagSep == <<"u3001">>
DescSep == <<"uFF5C">>

\* row.get(col): None when the sheet has no such column
RowGet(row, col) == IF col \in DOMAIN row THEN row[col] ELSE None

RECURSIVE FfillFrom(_, _, _)
\* one column of DataFrame.ffill(): a missing cell takes the last value seen
FfillFrom(rows, col, last) ==
    IF rows = <<>> THEN <<>>
    ELSE LET v == IF IsNa(Head(rows)[col]) THEN last ELSE Head(rows)[col]
         IN <<[Head(rows) EXCEPT ![col] = v]>> \o FfillFrom(Tail(rows), col, v)

\* line 92 left out: no cell is filled
Ffill_None(rows) == rows

\* line 92
Ffill(rows) ==
    FfillFrom(FfillFrom(FfillFrom(rows, ColDate, NaN), ColWeekday, NaN), ColPlace, NaN)

NotNaTime(row) == ~IsNa(row[ColTime])
NotNaDate(row) == ~IsNa(row[ColDate])

\* lines 94-96 (the date cells are Timestamps, which pd.to_datetime keeps)
FilterRows(rows) == SelectSeq(SelectSeq(rows, NotNaTime), NotNaDate)

\* lines 105-111 with the loan test ahead of the class test
Tags_LoanFirst(row) ==
    (IF PyStr(RowGet(row, ColLoan)) = <<"V">> THEN <<TagLoan>> ELSE <<>>)
    \o (IF PyStr(RowGet(row, ColClass)) = <<"V">> THEN <<TagClass>> ELSE <<>>)
    \o (IF PyStr(RowGet(row, ColVisit)) = <<"V">> THEN <<TagVisit>> ELSE <<>>)

\* lines 105-111
Tags(row) ==
    (IF PyStr(RowGet(row, ColClass)) = <<"V">> THEN <<TagClass>> ELSE <<>>)
    \o (IF PyStr(RowGet(row, ColLoan)) = <<"V">> THEN <<TagLoan>> ELSE <<>>)
    \o (IF PyStr(RowGet(row, ColVisit)) = <<"V">> THEN <<TagVisit>> ELSE <<>>)

\* line 112
TagText(tags) == IF tags # <<>> THEN <<"(">> \o Join(tags, TagSep) \o <<")">> ELSE <<>>

\* lines 118-119
CellText(cell) == IF IsNa(cell) THEN <<>> ELSE Strip(PyStr(cell))

\* the exclusive fallback: the reason if there is one, else the unit
Desc_Exclusive(r, u) == IF r # <<>> THEN r ELSE u

\* lines 122-130; <<>> stands for the continue of line 130
Desc(r, u) ==
    IF r # <<>> /\ u # <<>> THEN r \o DescSep \o u
    ELSE IF r # <<>> THEN r
    ELSE IF u # <<>> THEN u
    ELSE <<>>

\* line 136
EventLine(t, tag, d) == Strip(t \o <<" ">> \o tag \o <<" ">> \o d)

\* line 137 putting the new line first
SetDefaultPrepend(m, k, line) ==
    IF k \in DOMAIN m THEN [m EXCEPT ![k] = <<line>> \o @]
    ELSE m @@ (k :> <<line>>)

\* line 137
SetDefaultAppend(m, k, line) ==
    IF k \in DOMAIN m THEN [m EXCEPT ![k] = Append(@, line)]
    ELSE m @@ (k :> <<line>>)

\* A local of the loop body that no pass has assigned yet (day: 0)
Unbound == <<"unbound">>

\* The empty dict of line 98
EmptyDict == [k \in {} |-> <<>>]

\* Lines 351-363 of the caller: read the sheet, take year and month from the
\* first dated row, call build_events_dict.  Any exception ends in the
\* except clause of line 378.
Generate ==
    /\ pc = "uploaded"
    /\ df' = sheet
    /\ IF ColDate \notin sheet.cols
       THEN /\ pc' = "failed"
            /\ err' = "KeyError"
            /\ UNCHANGED <<year, month>>
       ELSE LET tmp == SelectSeq(sheet.rows, NotNaDate) IN
            IF tmp = <<>>
            THEN /\ pc' = "no_data"
                 /\ UNCHANGED <<err, year, month>>
            ELSE /\ pc' = "ffill"
                 /\ year' = tmp[1][ColDate].y
                 /\ month' = tmp[1][ColDate].m
                 /\ UNCHANGED err
    /\ UNCHANGED <<sheet, row_idx, events_by_day>>
    /\ UNCHANGED <<timeVars, rowVars, drawVars, fontVars>>

\* line 92
FfillStep ==
    /\ pc = "ffill"
    /\ IF {ColDate, ColWeekday, ColPlace} \subseteq df.cols
       THEN /\ df' = [df EXCEPT !.rows = Ffill(df.rows)]
            /\ pc' = "filter"
            /\ UNCHANGED err
       ELSE /\ pc' = "failed"
            /\ err' = "KeyError"
            /\ UNCHANGED df
    /\ UNCHANGED <<sheet, row_idx, events_by_day, year, month>>
    /\ UNCHANGED <<timeVars, rowVars, drawVars, fontVars>>

\* lines 94-98
FilterStep ==
    /\ pc = "filter"
    /\ IF ColTime \in df.cols
       THEN /\ df' = [df EXCEPT !.rows = FilterRows(df.rows)]
            /\ events_by_day' = EmptyDict
            /\ row_idx' = 1
            /\ pc' = "loop"
            /\ UNCHANGED err
       ELSE /\ pc' = "failed"
            /\ err' = "KeyError"
            /\ UNCHANGED <<df, events_by_day, row_idx>>
    /\ UNCHANGED <<sheet, year, month>>
    /\ UNCHANGED <<timeVars, rowVars, drawVars, fontVars>>

\* lines 100-137: one pass of the loop body
RowStep ==
    /\ pc = "loop"
    /\ row_idx <= Len(df.rows)
    /\ LET row == df.rows[row_idx]
           t == format_time_range(Str(PyStr(row[ColTime])))
           r == CellText(RowGet(row, ColReason))
           u == CellText(RowGet(row, ColUnit))
           ds == Desc(r, u)
       IN /\ day' = row[ColDate].d
          /\ IF ~t.ok
             THEN /\ pc' = "failed"
                  /\ err' = t.exc
                  /\ UNCHANGED <<time_str, tag_text, reason, unit, desc,
                                 events_by_day, row_idx>>
             ELSE /\ time_str' = t.val
                  /\ tag_text' = TagText(Tags(row))
                  /\ reason' = r
                  /\ unit' = u
                  /\ desc' = IF ds = <<>> THEN desc ELSE ds
                  /\ events_by_day' =
                        IF ds # <<>> /\ t.val # <<>>
                        THEN SetDefaultAppend(events_by_day, row[ColDate].d,
                                              EventLine(t.val, TagText(Tags(row)), ds))
                        ELSE events_by_day
                  /\ row_idx' = row_idx + 1
                  /\ UNCHANGED <<pc, err>>
    /\ UNCHANGED <<sheet, df, year, month>>
    /\ UNCHANGED <<timeVars, drawVars, fontVars>>

\* line 139
ReturnStep ==
    /\ pc = "loop"
    /\ row_idx > Len(df.rows)
    /\ pc' = "built"
    /\ UNCHANGED <<sheetVars, rowVars, events_by_day, year, month>>
    /\ UNCHANGED <<timeVars, drawVars, fontVars>>

-----------------------------------------------------------------------------
(* Worksheets fed to build_events_dict *)

MaxRows == 3

D5 == Timestamp(2025, 11, 5)
D6 == Timestamp(2025, 11, 6)
T0900 == Str(<<"0", "9", "0", "0", "-", "1", "2", "0", "0">>)
T1400 == Str(<<"1", "4", "0", "0", "-", "1", "6", "0", "0">>)
TBad == Str(<<"9", "-", "1", "0", "-", "1", "1">>)
V == Str(<<"V">>)
Math == Str(<<"M", "a", "t", "h">>)
ClubX == Str(<<"C", "l", "u", "b", " ", "X">>)

\* A row; weekday and place are filled in on the rows that carry a date
MkRow(date, time, class, loan, visit, rsn, unt) ==
    [date |-> date,
     weekday |-> IF IsNa(date) THEN NaN ELSE Str(<<"W">>),
     place |-> IF IsNa(date) THEN NaN ELSE Str(<<"R">>),
     time |-> time, class |-> class, loan |-> loan, visit |-> visit,
     reason |-> rsn, unit |-> unt]

DescRows ==
    {MkRow(D5, T0900, NaN, NaN, NaN, r, u) :
        r \in {NaN, Str(<<" ">>), Str(<<"A", " ">>)}, u \in {NaN, Str(<<"B">>)}}
    \cup {MkRow(D6, T0900, NaN, NaN, NaN, Str(<<" ">>), NaN),
          MkRow(D6, T0900, NaN, NaN, NaN, NaN, Str(<<"B">>))}

\* a cell other than the marker: empty for class and visit, "v" for loan
TagRows ==
    {MkRow(D5, T0900, c, l, v, Str(<<"A">>), NaN) :
        c \in {NaN, V}, l \in {Str(<<"v">>), V}, v \in {NaN, V}}

BookingRows ==
    {MkRow(d, T0900, V, NaN, NaN, Math, NaN) : d \in {NaN, D5, D6}}
    \cup {MkRow(d, T1400, NaN, V, NaN, NaN, ClubX) : d \in {NaN, D5}}
    \cup {MkRow(d, Num(900), NaN, NaN, NaN, Math, NaN) : d \in {NaN, D5}}
    \cup {MkRow(D6, NaN, NaN, NaN, NaN, Math, NaN)}

OddRows ==
    {MkRow(D5, T0900, V, NaN, NaN, Math, ClubX),
     MkRow(NaN, T1400, NaN, V, NaN, NaN, ClubX),
     MkRow(D6, TBad, NaN, NaN, NaN, Math, NaN)}

RowSeqs(rows) == UNION {[1..n -> rows] : n \in 0..MaxRows}

Restrict(rows, cols) == [k \in DOMAIN rows |-> [c \in cols |-> rows[k][c]]]

Sheets ==
    {[cols |-> AllCols, rows |-> rs] :
        rs \in RowSeqs(DescRows) \cup RowSeqs(TagRows) \cup RowSeqs(BookingRows)}
    \cup {[cols |-> cs, rows |-> Restrict(rs, cs)] :
            cs \in {AllCols} \cup {AllCols \ {c} : c \in AllCols},
            rs \in RowSeqs(OddRows)}

InitEvents ==
    /\ pc = "uploaded"
    /\ raw = None /\ time_out = None
    /\ sheet \in Sheets /\ df = None
    /\ events_by_day = EmptyDict
    /\ row_idx = 0 /\ err = "none"
    /\ day = 0 /\ time_str = Unbound /\ tag_text = Unbound
    /\ reason = Unbound /\ unit = Unbound /\ desc = Unbound
    /\ year = 0 /\ month = 0 /\ title_text = <<>>
    /\ month_matrix = <<>> /\ cmds = <<>>
    /\ week_idx = 0 /\ day_idx = 0
    /\ font_file = "absent" /\ rpc = <<>> /\ font_ret = <<>>

NextEvents == Generate \/ FfillStep \/ FilterStep \/ RowStep \/ ReturnStep

SpecEvents == InitEvents /\ [][NextEvents]_vars

-----------------------------------------------------------------------------
(* Properties of build_events_dict *)

Days == 1..31

EventsOn(d) == IF d \in DOMAIN events_by_day THEN events_by_day[d] ELSE <<>>

RECURSIVE SumLen(_, _)
SumLen(m, ks) ==
    IF ks = {} THEN 0
    ELSE LET k == CHOOSE x \in ks : TRUE IN Len(m[k]) + SumLen(m, ks \ {k})

TotalEvents == SumLen(events_by_day, DOMAIN events_by_day)

SetMax(S) == CHOOSE x \in S : \A y \in S : y <= x

\* The day row k of the sheet is filed under: the day of the nearest row at or
\* above it that carries a date, 0 when there is none
FiledDay(k) ==
    LET dated == {j \in 1..k : ~IsNa(sheet.rows[j][ColDate])}
    IN IF dated = {} THEN 0 ELSE sheet.rows[SetMax(dated)][ColDate].d

Blank(cell) == IsNa(cell) \/ \A i \in 1..Len(PyStr(cell)) : PyStr(cell)[i] \in Whitespace

\* The time label of a row of the sheet
Label(row) == format_time_range(Str(PyStr(row[ColTime])))

\* Row k of the sheet yields an event: it has a time token, a non-empty label
\* and a reason or a unit
Emits(k) ==
    LET row == sheet.rows[k] IN
    /\ ~IsNa(row[ColTime])
    /\ Label(row).ok /\ Label(row).val # <<>>
    /\ ~(Blank(RowGet(row, ColReason)) /\ Blank(RowGet(row, ColUnit)))

LineOf(k) ==
    LET row == sheet.rows[k] IN
    EventLine(Label(row).val, TagText(Tags(row)),
              Desc(CellText(RowGet(row, ColReason)), CellText(RowGet(row, ColUnit))))

RECURSIVE LinesUpTo(_, _)
\* The lines of the emitting rows 1..k filed under day d, in sheet order
LinesUpTo(k, d) ==
    IF k = 0 THEN <<>>
    ELSE LinesUpTo(k - 1, d)
         \o (IF Emits(k) /\ FiledDay(k) = d THEN <<LineOf(k)>> ELSE <<>>)

Line0900ClassMath ==
    <<"0", "9", ":", "0", "0", "-", "1", "2", ":", "0", "0", " ",
      "(", "u4E0A", "u8AB2", ")", " ", "M", "a", "t", "h">>
Line1400LoanClubX ==
    <<"1", "4", ":", "0", "0", "-", "1", "6", ":", "0", "0", " ",
      "(", "u501F", "u7528", ")", " ", "C", "l", "u", "b", " ", "X">>

\* The last row the loop body has run on
Processed == pc \in {"loop", "built"} /\ row_idx > 1
LastRow == df.rows[row_idx - 1]
LastEmitted == desc # Unbound /\ ~(reason = <<>> /\ unit = <<>>) /\ time_str # <<>>
LastLine == events_by_day[day][Len(events_by_day[day])]
EndsWith(s, t) == Len(t) <= Len(s) /\ SubSeq(s, Len(s) - Len(t) + 1, Len(s)) = t

\* C3: the description follows the inclusive rule (both: reason, separator,
\* unit; one: that one), the emitted line ends with it, and a row whose reason
\* and unit are both missing or blank emits nothing: every event and every
\* key of the mapping comes from a row that has a reason or a unit.
C3_InclusiveDescription ==
    /\ Processed =>
         LET r == CellText(RowGet(LastRow, ColReason))
             u == CellText(RowGet(LastRow, ColUnit))
         IN /\ (r # <<>> /\ u # <<>>) => desc = r \o <<"uFF5C">> \o u
            /\ (r # <<>> /\ u = <<>>) => desc = r
            /\ (r = <<>> /\ u # <<>>) => desc = u
            /\ (r = <<>> /\ u = <<>>) <=>
                  (Blank(RowGet(LastRow, ColReason)) /\ Blank(RowGet(LastRow, ColUnit)))
            /\ (~(r = <<>> /\ u = <<>>) /\ time_str # <<>>) =>
                  /\ day \in DOMAIN events_by_day
                  /\ EndsWith(LastLine, desc)
    /\ pc \in {"loop", "built"} =>
         LET kept == {k \in 1..(row_idx - 1) :
                        ~(Blank(RowGet(df.rows[k], ColReason))
                          /\ Blank(RowGet(df.rows[k], ColUnit)))}
         IN /\ TotalEvents <= Cardinality(kept)
            /\ DOMAIN events_by_day \subseteq {df.rows[k][ColDate].d : k \in kept}

C3_Witness ==
    /\ pc = "built"
    /\ sheet.cols = AllCols
    /\ Len(sheet.rows) = 3
    /\ sheet.rows[1][ColReason] = Str(<<"A", " ">>) /\ sheet.rows[1][ColUnit] = Str(<<"B">>)
    /\ sheet.rows[1][ColDate] = D5
    /\ sheet.rows[2][ColReason] = Str(<<" ">>) /\ sheet.rows[2][ColUnit] = NaN
    /\ sheet.rows[2][ColDate] = D6
    /\ sheet.rows[3][ColReason] = NaN /\ sheet.rows[3][ColUnit] = Str(<<"B">>)
    /\ sheet.rows[3][ColDate] = D5
    /\ DOMAIN events_by_day = {5}
    /\ Len(events_by_day[5]) = 2
    /\ EndsWith(events_by_day[5][1], <<" ", "A", "uFF5C", "B">>)
    /\ EndsWith(events_by_day[5][2], <<" ", "B">>)

\* C4: for every day the returned sequence lists the lines of that day's
\* emitting rows in sheet order, one per row; the two bookings of the 5th
\* (class 0900-1200 Math, loan 1400-1600 Club X) give exactly their two lines.
C4_SheetOrder ==
    pc = "built" =>
      /\ \A d \in Days : EventsOn(d) = LinesUpTo(Len(sheet.rows), d)
      /\ DOMAIN events_by_day \subseteq Days
      /\ sheet.rows = <<MkRow(D5, T0900, V, NaN, NaN, Math, NaN),
                        MkRow(D5, T1400, NaN, V, NaN, NaN, ClubX)>>
           => events_by_day = (5 :> <<Line0900ClassMath, Line1400LoanClubX>>)

C4_Witness ==
    /\ pc = "built"
    /\ sheet.rows = <<MkRow(D5, T1400, NaN, V, NaN, NaN, ClubX),
                      MkRow(D6, T0900, V, NaN, NaN, Math, NaN),
                      MkRow(D5, T0900, V, NaN, NaN, Math, NaN)>>
    /\ events_by_day = (5 :> <<Line1400LoanClubX, Line0900ClassMath>>)
                        @@ (6 :> <<Line0900ClassMath>>)

\* C5: the tag text holds exactly the flags whose cell is the marker V, in
\* the order class, loan, visit, joined by the separator inside parentheses,
\* and is empty when no flag is set.
C5_Flagged(col) == col \in DOMAIN LastRow /\ LastRow[col] = Str(<<"V">>)
C5_Words ==
    LET Has(p) == C5_Flagged(p[1])
    IN SelectSeq(<<<<ColClass, <<"u4E0A", "u8AB2">>>>, <<ColLoan, <<"u501F", "u7528">>>>,
                   <<ColVisit, <<"u53C3", "u8A2A">>>>>>, Has)
C5_Expected ==
    CASE Len(C5_Words) = 0 -> <<>>
      [] Len(C5_Words) = 1 -> <<"(">> \o C5_Words[1][2] \o <<")">>
      [] Len(C5_Words) = 2 ->
           <<"(">> \o C5_Words[1][2] \o <<"u3001">> \o C5_Words[2][2] \o <<")">>
      [] Len(C5_Words) = 3 ->
           <<"(">> \o C5_Words[1][2] \o <<"u3001">> \o C5_Words[2][2]
                  \o <<"u3001">> \o C5_Words[3][2] \o <<")">>

C5_TagOrder ==
    (Processed /\ tag_text # Unbound) =>
      /\ tag_text = C5_Expected
      /\ (C5_Flagged(ColClass) /\ C5_Flagged(ColLoan) /\ ~C5_Flagged(ColVisit))
           => tag_text = <<"(", "u4E0A", "u8AB2", "u3001", "u501F", "u7528", ")">>
      /\ (LastEmitted /\ tag_text # <<>>) =>
           LastLine = time_str \o <<" ">> \o tag_text \o <<" ">> \o desc

C5_Witness ==
    /\ pc = "built"
    /\ sheet.cols = AllCols
    /\ Len(sheet.rows) = 2
    /\ sheet.rows[1][ColClass] = NaN /\ sheet.rows[1][ColLoan] = V
    /\ sheet.rows[1][ColVisit] = V
    /\ sheet.rows[2][ColClass] = V /\ sheet.rows[2][ColLoan] = V
    /\ sheet.rows[2][ColVisit] = V
    /\ tag_text = <<"(", "u4E0A", "u8AB2", "u3001", "u501F", "u7528", "u3001",
                    "u53C3", "u8A2A", ")">>
    /\ EndsWith(events_by_day[5][1], <<"(", "u501F", "u7528", "u3001", "u53C3", "u8A2A", ")",
                                       " ", "A">>)

\* C6: a sheet that lacks the date, time, reason or unit column never gets a
\* mapping back from build_events_dict.
C6_MissingColumnIsFatal ==
    pc = "built" => {ColDate, ColTime, ColReason, ColUnit} \subseteq sheet.cols

\* C7: a row whose time cell is not a string emits no event, so there are at
\* most as many events as rows with a string time cell.
C7_NonStringTimeExcluded ==
    pc = "built" =>
      TotalEvents <= Cardinality({k \in 1..Len(sheet.rows) :
                                    sheet.rows[k][ColTime].kind = "str"})

\* C8: the date column is filled downwards before the rows are filtered: day
\* d holds one event per emitting row whose nearest dated row at or above it
\* is of day d; rows above every dated row give no event and no key.
C8_ForwardFill ==
    pc = "built" =>
      /\ \A d \in Days :
           Len(EventsOn(d)) =
             Cardinality({k \in 1..Len(sheet.rows) : Emits(k) /\ FiledDay(k) = d})
      /\ DOMAIN events_by_day
           = {FiledDay(k) : k \in {j \in 1..Len(sheet.rows) : Emits(j)}} \ {0}

C8_Witness ==
    /\ pc = "built"
    /\ sheet.cols = AllCols
    /\ Len(sheet.rows) = 3
    /\ IsNa(sheet.rows[1][ColDate]) /\ Emits(1)
    /\ sheet.rows[2][ColDate] = D6 /\ Emits(2)
    /\ IsNa(sheet.rows[3][ColDate]) /\ Emits(3)
    /\ DOMAIN events_by_day = {6}
    /\ Len(events_by_day[6]) = 2

-----------------------------------------------------------------------------
(* format_time_range on its own *)

MaxTokenLen == 7
TimeChars == {"0", "9", "-", "x"}
T900 == Str(<<"9", "0", "0", "-", "1", "2", "0", "0">>)

TimeInputs ==
    {Str(s) : s \in UNION {[1..n -> TimeChars] : n \in 0..MaxTokenLen}}
    \cup {T0900, T900, Num(900), NaN, None}

CallFormatTimeRange ==
    /\ pc = "call"
    /\ time_out' = format_time_range(raw)
    /\ pc' = "returned"
    /\ UNCHANGED <<raw, sheetVars, rowVars, events_by_day, year, month>>
    /\ UNCHANGED <<drawVars, fontVars>>

InitTime ==
    /\ pc = "call"
    /\ raw \in TimeInputs /\ time_out = None
    /\ sheet = None /\ df = None
    /\ events_by_day = EmptyDict
    /\ row_idx = 0 /\ err = "none"
    /\ day = 0 /\ time_str = Unbound /\ tag_text = Unbound
    /\ reason = Unbound /\ unit = Unbound /\ desc = Unbound
    /\ year = 0 /\ month = 0 /\ title_text = <<>>
    /\ month_matrix = <<>> /\ cmds = <<>>
    /\ week_idx = 0 /\ day_idx = 0
    /\ font_file = "absent" /\ rpc = <<>> /\ font_ret = <<>>

NextTime == CallFormatTimeRange

SpecTime == InitTime /\ [][NextTime]_vars

Clock0900to1200 == <<"0", "9", ":", "0", "0", "-", "1", "2", ":", "0", "0">>

\* v reads HH:MM-HH:MM
C2_IsClock(v) ==
    /\ Len(v) = 11
    /\ v[3] = ":" /\ v[6] = "-" /\ v[9] = ":"
    /\ \A i \in {1, 2, 4, 5, 7, 8, 10, 11} : v[i] \in Digits

\* four is tok with zeros put in front up to four characters
C2_Padded(tok, four) ==
    /\ Len(four) = 4
    /\ Len(tok) <= 4
    /\ \A i \in 1..4 : four[i] = IF i <= 4 - Len(tok) THEN "0" ELSE tok[i - (4 - Len(tok))]

C2_Numeric(tok) == tok # <<>> /\ \A i \in 1..Len(tok) : tok[i] \in Digits

\* raw.s is start-end with numeric tokens of at most maxlen digits
C2_Range(maxlen) ==
    /\ raw.kind = "str"
    /\ \E k \in 1..Len(raw.s) :
         /\ raw.s[k] = "-"
         /\ C2_Numeric(SubSeq(raw.s, 1, k - 1)) /\ k - 1 <= maxlen
         /\ C2_Numeric(SubSeq(raw.s, k + 1, Len(raw.s))) /\ Len(raw.s) - k <= maxlen

C2_Rest ==
    /\ (raw.kind = "str" /\ \A i \in 1..Len(raw.s) : raw.s[i] # "-")
         => time_out = Returned(raw.s)
    /\ raw.kind # "str" => time_out = Returned(<<>>)
    /\ raw \in {T0900, T900} => time_out = Returned(Clock0900to1200)

\* C2 as stated: every start-end token of numeric parts gives HH:MM-HH:MM, a
\* string without the separator comes back unchanged, a non-string gives "".
C2_AnyDigits ==
    pc = "returned" =>
      /\ C2_Range(MaxTokenLen) => (time_out.ok /\ C2_IsClock(time_out.val))
      /\ C2_Rest

\* C2 amended: the same for numeric parts of one to four digits each, and the
\* result is the two parts zero-padded to four digits.
C2_UpToFourDigits ==
    pc = "returned" =>
      /\ C2_Range(4) =>
           /\ time_out.ok
           /\ C2_IsClock(time_out.val)
           /\ \E k \in 1..Len(raw.s) :
                /\ raw.s[k] = "-"
                /\ C2_Padded(SubSeq(raw.s, 1, k - 1),
                             SubSeq(time_out.val, 1, 2) \o SubSeq(time_out.val, 4, 5))
                /\ C2_Padded(SubSeq(raw.s, k + 1, Len(raw.s)),
                             SubSeq(time_out.val, 7, 8) \o SubSeq(time_out.val, 10, 11))
      /\ C2_Rest

C2_Witness ==
    /\ pc = "returned"
    /\ raw = T900
    /\ time_out = Returned(Clock0900to1200)

-----------------------------------------------------------------------------
(* calendar.monthcalendar as lines 156-157 use it *)

SUNDAY == 6

isleap(y) == y % 4 = 0 /\ (y % 100 # 0 \/ y % 400 = 0)

mdays == <<31, 28, 31, 30, 31, 30, 31, 31, 30, 31, 30, 31>>

ndays(y, m) == mdays[m] + (IF m = 2 /\ isleap(y) THEN 1 ELSE 0)

DaysBeforeYear(y) ==
    (y - 1) * 365 + ((y - 1) \div 4) - ((y - 1) \div 100) + ((y - 1) \div 400)

RECURSIVE DaysBeforeMonth(_, _)
DaysBeforeMonth(y, m) ==
    IF m = 1 THEN 0 ELSE DaysBeforeMonth(y, m - 1) + ndays(y, m - 1)

\* date(y, m, d).weekday(): Monday is 0
weekday(y, m, d) == (DaysBeforeYear(y) + DaysBeforeMonth(y, m) + d + 6) % 7

RECURSIVE Repeat(_, _)
Repeat(x, n) == IF n <= 0 THEN <<>> ELSE <<x>> \o Repeat(x, n - 1)

\* itermonthdays without the zeros after the last day
itermonthdays_NoDaysAfter(y, m, firstweekday) ==
    LET day1 == (DaysBeforeYear(y) + DaysBeforeMonth(y, m) + 1 + 6) % 7
        days_before == (day1 - firstweekday) % 7
    IN [i \in 1..days_before |-> 0] \o [d \in 1..ndays(y, m) |-> d]

\* Calendar.itermonthdays: zeros before the 1st and after the last day
itermonthdays(y, m, firstweekday) ==
    LET day1 == weekday(y, m, 1)
        days_before == (day1 - firstweekday) % 7
        days_after == (firstweekday - day1 - ndays(y, m)) % 7
    IN Repeat(0, days_before) \o [d \in 1..ndays(y, m) |-> d] \o Repeat(0, days_after)

RECURSIVE Chunk7(_)
\* Calendar.monthdayscalendar: [days[i:i+7] for i in range(0, len(days), 7)]
Chunk7(days) ==
    IF days = <<>> THEN <<>>
    ELSE IF Len(days) <= 7 THEN <<days>>
    ELSE <<SubSeq(days, 1, 7)>> \o Chunk7(SubSeq(days, 8, Len(days)))

\* lines 156-157
monthcalendar(y, m) == Chunk7(itermonthdays(y, m, SUNDAY))

-----------------------------------------------------------------------------
(* textwrap.fill(event, width=17), line 266.  Events hold no tab and no     *)
(* hyphen between letters, so the chunks are the runs of blanks and of     *)
(* other characters.                                                       *)

WrapWidth == 17

IsBlank(chunk) == \A i \in 1..Len(chunk) : chunk[i] \in Whitespace

RECURSIVE RunLen(_, _)
\* length of the leading run of s of blanks (blank = TRUE) or of non-blanks
RunLen(s, blank) ==
    IF s = <<>> \/ ((Head(s) \in Whitespace) # blank) THEN 0
    ELSE 1 + RunLen(Tail(s), blank)

RECURSIVE Chunks(_)
\* TextWrapper._munge_whitespace and _split
Chunks(s) ==
    IF s = <<>> THEN <<>>
    ELSE LET n == RunLen(s, Head(s) \in Whitespace)
             run == SubSeq(s, 1, n)
         IN <<IF IsBlank(run) THEN [i \in 1..n |-> " "] ELSE run>>
            \o Chunks(SubSeq(s, n + 1, Len(s)))

RECURSIVE Concat(_)
Concat(parts) == IF parts = <<>> THEN <<>> ELSE Head(parts) \o Concat(Tail(parts))

RECURSIVE FitCount(_, _)
\* how many leading chunks fit in room characters
FitCount(chunks, room) ==
    IF chunks = <<>> \/ Len(Head(chunks)) > room THEN 0
    ELSE 1 + FitCount(Tail(chunks), room - Len(Head(chunks)))

\* TextWrapper._handle_long_word: where to cut a chunk longer than the width
LongWordCut(chunk, space_left) ==
    LET hy == {i \in 1..space_left : i <= Len(chunk) /\ chunk[i] = "-"}
        h == IF hy = {} THEN 0 ELSE CHOOSE i \in hy : \A j \in hy : j <= i
    IN IF Len(chunk) > space_left /\ h > 1
          /\ \E i \in 1..(h - 1) : chunk[i] # "-"
       THEN h
       ELSE space_left

RECURSIVE WrapChunks(_, _, _)
\* TextWrapper._wrap_chunks; started: a line has been produced already
WrapChunks(chunks, width, started) ==
    IF chunks = <<>> THEN <<>>
    ELSE LET cs == IF started /\ IsBlank(Head(chunks)) THEN Tail(chunks) ELSE chunks
             k == FitCount(cs, width)
             fit == SubSeq(cs, 1, k)
             rest == SubSeq(cs, k + 1, Len(cs))
             long == rest # <<>> /\ Len(rest[1]) > width
             cut == IF long THEN LongWordCut(rest[1], width - Len(Concat(fit))) ELSE 0
             cur == IF long THEN Append(fit, SubSeq(rest[1], 1, cut)) ELSE fit
             left == IF long
                     THEN <<SubSeq(rest[1], cut + 1, Len(rest[1]))>> \o Tail(rest)
                     ELSE rest
             kept == IF cur # <<>> /\ IsBlank(cur[Len(cur)])
                     THEN SubSeq(cur, 1, Len(cur) - 1) ELSE cur
         IN IF kept # <<>>
            THEN <<Concat(kept)>> \o WrapChunks(left, width, TRUE)
            ELSE WrapChunks(left, width, started)

Fill(text, width) == Join(WrapChunks(Chunks(text), width, FALSE), <<"\n">>)

-----------------------------------------------------------------------------
(* draw_month_calendar, lines 146-287.  Coordinates are in hundredths of a *)
(* cell, font sizes in tenths of a point.                                  *)

RectCmd(x, y, w, h, face) ==
    [kind |-> "rect", x |-> x, y |-> y, w |-> w, h |-> h, facecolor |-> face]
TextCmd(x, y, s, size, weight) ==
    [kind |-> "text", x |-> x, y |-> y, s |-> s, fontsize |-> size, fontweight |-> weight]

\* line 180
subtitle ==
    <<"u6642", "u9593", "u3001", "u7533", "u8ACB", "u4E8B", "u7531", "u8207",
      "u7533", "u8ACB", "u55AE", "u4F4D", "u4E00", "u89BD">>

\* line 193
weekdays ==
    <<<<"u9031", "u65E5">>, <<"u9031", "u4E00">>, <<"u9031", "u4E8C">>,
      <<"u9031", "u4E09">>, <<"u9031", "u56DB">>, <<"u9031", "u4E94">>,
      <<"u9031", "u516D">>>>

\* line 364 of the caller
Title(y, m) ==
    IntStr(y) \o <<"u5E74">> \o ZFill(IntStr(m), 2)
    \o <<"u6708", " ", "u591A", "u529F", "u80FD", "u6559", "u5BA4", "u4F7F", "u7528",
         "u60C5", "u5F62">>

\* lines 168-190
TitleCommands(weeks, title) ==
    <<TextCmd(2, weeks * 100 + 45, title, 260, "bold"),
      TextCmd(2, weeks * 100 + 15, subtitle, 140, "normal")>>

RECURSIVE HeaderFrom(_, _)
\* lines 195-215, from weekday i (0 is Sunday) on
HeaderFrom(i, weeks) ==
    IF i >= 7 THEN <<>>
    ELSE <<RectCmd(i * 100, weeks * 100 - 30, 100, 50, "#F0F0F5"),
           TextCmd(i * 100 + 50, weeks * 100 + 50 - 45, weekdays[i + 1], 160, "bold")>>
         \o HeaderFrom(i + 1, weeks)

RECURSIVE WrappedLines(_)
\* lines 263-267
WrappedLines(events) ==
    IF events = <<>> THEN <<>>
    ELSE <<<<"u2022", " ">> \o Fill(Head(events), WrapWidth)>>
         \o WrappedLines(Tail(events))

\* dict.get(day, []) of line 259
DictGet(m, k) == IF k \in DOMAIN m THEN m[k] ELSE <<>>

\* lines 220-279 without the continue of lines 243-244
CellCommands_NoPaddingSkip(weeks, w, i, d, events_of) ==
    LET x == i * 100
        y == (weeks - (w + 1)) * 100 - 10
        face == IF d = 0 THEN "#FFFFFF"
                ELSE IF i \in {0, 6} THEN "#FBFBFD" ELSE "#FFFFFF"
        rect == RectCmd(x, y, 100, 100, face)
        events == DictGet(events_of, d)
    IN IF events = <<>>
       THEN <<rect, TextCmd(x + 5, y + 95, IntStr(d), 130, "bold")>>
       ELSE <<rect, TextCmd(x + 5, y + 95, IntStr(d), 130, "bold"),
              TextCmd(x + 5, y + 80, Join(WrappedLines(events), <<"\n">>), 105, "normal")>>

\* lines 220-279: what one pass of the inner loop draws
CellCommands(weeks, w, i, d, events_of) ==
    LET x == i * 100
        y == (weeks - (w + 1)) * 100 - 10
        face == IF d = 0 THEN "#FFFFFF"
                ELSE IF i \in {0, 6} THEN "#FBFBFD" ELSE "#FFFFFF"
        rect == RectCmd(x, y, 100, 100, face)
        events == DictGet(events_of, d)
    IN IF d = 0 THEN <<rect>>
       ELSE IF events = <<>>
       THEN <<rect, TextCmd(x + 5, y + 95, IntStr(d), 130, "bold")>>
       ELSE <<rect, TextCmd(x + 5, y + 95, IntStr(d), 130, "bold"),
              TextCmd(x + 5, y + 80, Join(WrappedLines(events), <<"\n">>), 105, "normal")>>

\* line 154: set_chinese_font() as this render sees it, from the state of the
\* cached file to the value returned (the steps are SetFont... below)
DrawSetFont ==
    /\ pc = "draw"
    /\ \E f \in {"absent", "partial", "complete"}, r \in {"None", "font"} :
         /\ (r = "font" => f # "absent")
         /\ font_file' = f
         /\ font_ret' = <<r>>
    /\ pc' = "matrix"
    /\ UNCHANGED <<timeVars, sheetVars, rowVars, events_by_day, year, month>>
    /\ UNCHANGED <<drawVars, rpc>>

\* lines 156-158
ComputeMatrix ==
    /\ pc = "matrix"
    /\ month_matrix' = monthcalendar(year, month)
    /\ pc' = "title"
    /\ UNCHANGED <<timeVars, sheetVars, rowVars, events_by_day, year, month>>
    /\ UNCHANGED <<title_text, cmds, week_idx, day_idx, fontVars>>

\* lines 160-215
DrawTitleAndHeader ==
    /\ pc = "title"
    /\ cmds' = TitleCommands(Len(month_matrix), title_text)
                \o HeaderFrom(0, Len(month_matrix))
    /\ week_idx' = 0
    /\ day_idx' = 0
    /\ pc' = "cells"
    /\ UNCHANGED <<timeVars, sheetVars, rowVars, events_by_day, year, month>>
    /\ UNCHANGED <<title_text, month_matrix, fontVars>>

\* lines 218-279: one pass of the inner loop
DrawCell ==
    /\ pc = "cells"
    /\ week_idx < Len(month_matrix)
    /\ cmds' = cmds \o CellCommands(Len(month_matrix), week_idx, day_idx,
                                     month_matrix[week_idx + 1][day_idx + 1],
                                     events_by_day)
    /\ IF day_idx + 1 < Len(month_matrix[week_idx + 1])
       THEN day_idx' = day_idx + 1 /\ UNCHANGED week_idx
       ELSE day_idx' = 0 /\ week_idx' = week_idx + 1
    /\ UNCHANGED pc
    /\ UNCHANGED <<timeVars, sheetVars, rowVars, events_by_day, year, month>>
    /\ UNCHANGED <<title_text, month_matrix, fontVars>>

\* lines 281-287
DrawSave ==
    /\ pc = "cells"
    /\ week_idx >= Len(month_matrix)
    /\ pc' = "saved"
    /\ UNCHANGED <<timeVars, sheetVars, rowVars, events_by_day, year, month>>
    /\ UNCHANGED <<drawVars, fontVars>>

-----------------------------------------------------------------------------
(* Inputs of draw_month_calendar *)

FirstDrawYear == 2025
DrawYearCount == 2
MaxEventsPerDay == 2

DrawYears == FirstDrawYear..(FirstDrawYear + DrawYearCount - 1)

LineLongWord ==
    <<"0", "1", "2", "3", "4", "5", "6", "7", "8", "9", "0", "1", "2", "3", "4", "5",
      "-", "6", "7", "8", "9", " ", "z">>

EventPool == <<Line0900ClassMath, Line1400LoanClubX, LineLongWord, <<"B">>>>

EventLists == {SubSeq(EventPool, 1, n) : n \in 0..MaxEventsPerDay}

DayKeys == {1, 31}

EventMaps == UNION {[ks -> EventLists] : ks \in SUBSET DayKeys}

InitCalendar ==
    /\ pc = "draw"
    /\ raw = None /\ time_out = None
    /\ sheet = None /\ df = None
    /\ events_by_day \in EventMaps
    /\ row_idx = 0 /\ err = "none"
    /\ day = 0 /\ time_str = Unbound /\ tag_text = Unbound
    /\ reason = Unbound /\ unit = Unbound /\ desc = Unbound
    /\ year \in DrawYears /\ month \in 1..12
    /\ title_text = Title(year, month)
    /\ month_matrix = <<>> /\ cmds = <<>>
    /\ week_idx = 0 /\ day_idx = 0
    /\ font_file = "absent" /\ rpc = <<>> /\ font_ret = <<>>

NextCalendar == DrawSetFont \/ ComputeMatrix \/ DrawTitleAndHeader \/ DrawCell \/ DrawSave

SpecCalendar == InitCalendar /\ [][NextCalendar]_vars

FirstMatrixYear == 1895
MatrixYearCount == 215

InitMatrix ==
    /\ pc = "matrix"
    /\ raw = None /\ time_out = None
    /\ sheet = None /\ df = None
    /\ events_by_day = EmptyDict
    /\ row_idx = 0 /\ err = "none"
    /\ day = 0 /\ time_str = Unbound /\ tag_text = Unbound
    /\ reason = Unbound /\ unit = Unbound /\ desc = Unbound
    /\ year \in FirstMatrixYear..(FirstMatrixYear + MatrixYearCount - 1)
    /\ month \in 1..12
    /\ title_text = Title(year, month)
    /\ month_matrix = <<>> /\ cmds = <<>>
    /\ week_idx = 0 /\ day_idx = 0
    /\ font_file = "absent" /\ rpc = <<>> /\ font_ret = <<>>

NextMatrix == ComputeMatrix

SpecMatrix == InitMatrix /\ [][NextMatrix]_vars

-----------------------------------------------------------------------------
(* Properties of the month matrix and of the draw commands *)

\* The Gregorian length of a month, by the usual rule
GregorianLeap(y) == (y % 4 = 0 /\ y % 100 # 0) \/ y % 400 = 0
DaysInMonth(y, m) ==
    IF m = 2 THEN (IF GregorianLeap(y) THEN 29 ELSE 28)
    ELSE IF m \in {4, 6, 9, 11} THEN 30 ELSE 31

\* C1: the month matrix has 4 to 6 rows of exactly 7 columns, its cells are 0
\* or a day of the month, and as many cells are non-zero as the month has
\* days; weeks start on Sunday (1 November 2025 is a Saturday).
C1_MatrixShape ==
    pc = "title" =>
      /\ Len(month_matrix) \in 4..6
      /\ \A w \in 1..Len(month_matrix) :
           /\ Len(month_matrix[w]) = 7
           /\ \A i \in 1..7 : month_matrix[w][i] \in 0..DaysInMonth(year, month)
      /\ Cardinality({<<w, i>> \in (1..Len(month_matrix)) \X (1..7) :
                        month_matrix[w][i] # 0}) = DaysInMonth(year, month)
      /\ (year = 2025 /\ month = 11) => month_matrix[1] = <<0, 0, 0, 0, 0, 0, 1>>

C1_Witness ==
    /\ pc = "title"
    /\ year = 2026 /\ month = 2
    /\ Len(month_matrix) = 4

Weeks == Len(month_matrix)
UnitRect(c) == c.kind = "rect" /\ c.w = 100 /\ c.h = 100
DayLabel(c) == c.kind = "text" /\ c.fontsize = 130
EventBlock(c) == c.kind = "text" /\ c.fontsize = 105
HasEvents(d) == d \in DOMAIN events_by_day /\ events_by_day[d] # <<>>
\* the commands drawn inside the cell whose lower left corner is (x, y)
InCell(x, y) ==
    {k \in 1..Len(cmds) :
        /\ (UnitRect(cmds[k]) \/ DayLabel(cmds[k]) \/ EventBlock(cmds[k]))
        /\ cmds[k].x >= x /\ cmds[k].x < x + 100
        /\ cmds[k].y >= y /\ cmds[k].y < y + 100}

\* C9: the grid is one unit rectangle per matrix cell; a padding cell gets
\* nothing else; each day of the month gets exactly one day-number label, and
\* one event block exactly when the mapping holds a non-empty list for it;
\* events under a key that is no day of the month draw nothing.
C9_CellCommands ==
    pc = "saved" =>
      /\ \A w \in 1..Weeks, i \in 1..7 :
           LET x == (i - 1) * 100
               y == (Weeks - w) * 100 - 10
               d == month_matrix[w][i]
               here == InCell(x, y)
           IN /\ Cardinality({k \in here : UnitRect(cmds[k])}) = 1
              /\ \A k \in here : UnitRect(cmds[k]) => (cmds[k].x = x /\ cmds[k].y = y)
              /\ d = 0 => Cardinality(here) = 1
              /\ d # 0 =>
                   /\ Cardinality({k \in here : DayLabel(cmds[k])}) = 1
                   /\ \A k \in here : DayLabel(cmds[k]) => cmds[k].s = IntStr(d)
                   /\ Cardinality({k \in here : EventBlock(cmds[k])})
                        = IF HasEvents(d) THEN 1 ELSE 0
      /\ Cardinality({k \in 1..Len(cmds) : UnitRect(cmds[k])}) = 7 * Weeks
      /\ Cardinality({k \in 1..Len(cmds) : DayLabel(cmds[k])}) = DaysInMonth(year, month)
      /\ \A d \in 1..DaysInMonth(year, month) :
           Cardinality({k \in 1..Len(cmds) :
                          DayLabel(cmds[k]) /\ cmds[k].s = IntStr(d)}) = 1
      /\ Cardinality({k \in 1..Len(cmds) : EventBlock(cmds[k])})
           = Cardinality({d \in 1..DaysInMonth(year, month) : HasEvents(d)})
      /\ Len(cmds) = 16 + 7 * Weeks + DaysInMonth(year, month)
                       + Cardinality({d \in 1..DaysInMonth(year, month) : HasEvents(d)})

C9_Witness ==
    /\ pc = "saved"
    /\ year = 2026 /\ month = 2
    /\ HasEvents(1) /\ HasEvents(31)
    /\ Cardinality({k \in 1..Len(cmds) : EventBlock(cmds[k])}) = 1
    /\ Cardinality({k \in 1..Len(cmds) : UnitRect(cmds[k])}) = 28

-----------------------------------------------------------------------------
(* set_chinese_font, lines 25-65, called by concurrent renders (line 154).  *)
(* font_file is the state of the cached file: "absent", "partial" (opened  *)
(* for writing and not yet whole) or "complete".                           *)

NumRenders == 2
Renders == 1..NumRenders

\* lines 50-60 outside any try: an exception of the load leaves the call
OnException_LoadUnguarded(site) ==
    CASE site = "notify" -> "fetch"
      [] site = "fetch" -> "return_none"
      [] site = "load" -> "raised"

\* Where an exception raised at a site of set_chinese_font goes: the
\* try/except of lines 36-39 passes, those of lines 41-47 and 50-65 return None
OnException(site) ==
    CASE site = "notify" -> "fetch"
      [] site = "fetch" -> "return_none"
      [] site = "load" -> "return_none"

\* the render's next position and return value after an exception at site
Throw(p, site) ==
    LET to == OnException(site) IN
    /\ rpc' = [rpc EXCEPT ![p] = IF to = "return_none" THEN "returned" ELSE to]
    /\ font_ret' = [font_ret EXCEPT ![p] = IF to = "return_none" THEN "None" ELSE @]

\* lines 30-32: mkdir(exist_ok=True)
FontMkdir(p) ==
    /\ rpc[p] = "start"
    /\ rpc' = [rpc EXCEPT ![p] = "exists"]
    /\ UNCHANGED <<font_file, font_ret>>

\* line 35
FontExists(p) ==
    /\ rpc[p] = "exists"
    /\ rpc' = [rpc EXCEPT ![p] = IF font_file = "absent" THEN "notify" ELSE "load"]
    /\ UNCHANGED <<font_file, font_ret>>

\* lines 36-39: st.write, whose failure is ignored
FontNotify(p) ==
    /\ rpc[p] = "notify"
    /\ \E ok \in BOOLEAN :
         IF ok THEN rpc' = [rpc EXCEPT ![p] = "fetch"] /\ UNCHANGED font_ret
         ELSE Throw(p, "notify")
    /\ UNCHANGED font_file

\* line 42, first half: urlretrieve connects and opens the file for writing
FontFetchOpen(p) ==
    /\ rpc[p] = "fetch"
    /\ \E ok \in BOOLEAN :
         IF ok
         THEN /\ font_file' = "partial"
              /\ rpc' = [rpc EXCEPT ![p] = "write"]
              /\ UNCHANGED font_ret
         ELSE Throw(p, "fetch") /\ UNCHANGED font_file

\* line 42, second half: the blocks are written; while another render has the
\* file open too, what this one leaves may or may not be whole
FontFetchWrite(p) ==
    /\ rpc[p] = "write"
    /\ \E ok \in BOOLEAN :
         IF ok
         THEN /\ font_file' \in (IF \E q \in Renders \ {p} : rpc[q] = "write"
                                 THEN {"partial", "complete"} ELSE {"complete"})
              /\ rpc' = [rpc EXCEPT ![p] = "load"]
              /\ UNCHANGED font_ret
         ELSE Throw(p, "fetch") /\ UNCHANGED font_file

\* lines 50-65: a whole file loads; a partial one may load or raise
FontLoad(p) ==
    /\ rpc[p] = "load"
    /\ \E ok \in BOOLEAN :
         /\ (ok => font_file # "absent")
         /\ (~ok => font_file # "complete")
         /\ IF ok
            THEN /\ rpc' = [rpc EXCEPT ![p] = "returned"]
                 /\ font_ret' = [font_ret EXCEPT ![p] = "font"]
            ELSE Throw(p, "load")
    /\ UNCHANGED font_file

\* lines 154-158: back in draw_month_calendar, the render goes on to its
\* month matrix and drawing
FontProceed(p) ==
    /\ rpc[p] = "returned"
    /\ rpc' = [rpc EXCEPT ![p] = "drawing"]
    /\ UNCHANGED <<font_file, font_ret>>

FontIdle ==
    UNCHANGED <<pc, timeVars, sheetVars, rowVars, events_by_day, year, month, drawVars>>

InitFont ==
    /\ pc = "renders"
    /\ raw = None /\ time_out = None
    /\ sheet = None /\ df = None
    /\ events_by_day = EmptyDict
    /\ row_idx = 0 /\ err = "none"
    /\ day = 0 /\ time_str = Unbound /\ tag_text = Unbound
    /\ reason = Unbound /\ unit = Unbound /\ desc = Unbound
    /\ year = 0 /\ month = 0 /\ title_text = <<>>
    /\ month_matrix = <<>> /\ cmds = <<>>
    /\ week_idx = 0 /\ day_idx = 0
    /\ font_file = "absent"
    /\ rpc = [p \in Renders |-> "start"]
    /\ font_ret = [p \in Renders |-> "unset"]

NextFont ==
    \E p \in Renders :
        /\ FontIdle
        /\ \/ FontMkdir(p)
           \/ FontExists(p)
           \/ FontNotify(p)
           \/ FontFetchOpen(p)
           \/ FontFetchWrite(p)
           \/ FontLoad(p)
           \/ FontProceed(p)

SpecFont == InitFont /\ [][NextFont]_vars

=============================================================================
